---- MODULE Spec2Model ----
(***************************************************************************)
(* format-args (src/src/bin/format-args.rs): the argument-list parser of   *)
(* a formatting macro's body, the visitor that classifies the arguments    *)
(* of each invocation, and the corpus driver that runs the visitor over    *)
(* every file in parallel and reduces the records to a report.             *)
(*                                                                         *)
(* Three specifications share the module:                                  *)
(*   ParseSpec  MacroCallParser::parse on one macro body                   *)
(*   VisitSpec  one visit of MacroFinder on one macro-invocation node      *)
(*   Spec       main: glob, the parallel map over the files, the report    *)
(* and a fourth follows the page loop of download_top_n_crates             *)
(* (src/src/lib.rs):                                                       *)
(*   DownloadSpec  the requests to the registry and the crates fetched     *)
(***************************************************************************)
EXTENDS Naturals, Sequences, FiniteSets

VARIABLES
    input,      \* ParseSpec: the token content of the macro body
    call,       \* ParseSpec: what parse_body::<MacroCallParser>() returned
    node,       \* VisitSpec: the macro-invocation node the traversal is at
    macros,     \* VisitSpec: MacroFinder.macros
    root,       \* Spec: the state of the directory "crates"
    disk,       \* Spec: the .rs files under the directory
    files,      \* Spec: the Vec<PathBuf> main collects from glob
    phase,      \* Spec: main's position
    pc,         \* Spec: per file, the position of its map closure
    finder,     \* Spec: per file, the closure's MacroFinder.macros
    results,    \* Spec: per file, what the closure returned
    calls,      \* Spec: the collected Vec<MacroCall>
    report,     \* Spec: the numbers main prints
    top_n,      \* DownloadSpec: the argument n of download_top_n_crates
    downloaded, \* DownloadSpec: the local downloaded
    page,       \* DownloadSpec: the local page
    response,   \* DownloadSpec: the crates of the response still to iterate
    requests,   \* DownloadSpec: the queries sent to the registry so far
    on_disk,    \* DownloadSpec: the crates that have a directory under dir
    dl_pc       \* DownloadSpec: the position in download_top_n_crates

downloadVars == <<top_n, downloaded, page, response, requests, on_disk, dl_pc>>

vars == <<input, call, node, macros, root, disk, files, phase, pc, finder, results,
          calls, report, downloadVars>>

(***************************************************************************)
(* Bounds of the model.                                                    *)
(***************************************************************************)
\* arguments of a macro body in ParseSpec
MaxArgs == 3
\* arguments after the leading literals of a macro body in VisitSpec
MaxExtra == 2
\* files found by glob in Spec
NumFiles == 2
\* map closures in flight at once in Spec (num_threads(8) in the source)
NumThreads == 2
\* the largest number of leading arguments a known macro skips
MaxSkip == 3

(***************************************************************************)
(* Tokens.  A macro body is a sequence of tokens:                          *)
(*   "ident"     an identifier                                             *)
(*   "lit"       a string literal                                          *)
(*   "dot"       .                                                         *)
(*   "comma"     ,                                                         *)
(*   "eq"        the punctuation = followed by something that is not       *)
(*               punctuation (Spacing::Alone)                              *)
(*   "eq_joint"  the punctuation = directly followed by more punctuation   *)
(*               (Spacing::Joint): == is <<"eq_joint", "eq">>              *)
(*   "colon2"    ::                                                        *)
(*   "parens"    the group ()                                              *)
(*   "parens1"   a group ( ... ) holding one argument                      *)
(*                                                                         *)
(* Expressions are written in prefix form as sequences of strings:         *)
(*   <<"Path", "ident">>      a path that is a single identifier           *)
(*   <<"Path", "segments">>   a path of several segments                   *)
(*   <<"Lit">>, <<"Tuple">>, <<"Paren">>                                   *)
(*   <<"Field">> \o base                                                   *)
(*   <<"MethodCall", "noargs" | "args">> \o receiver                       *)
(*   <<"Call">> \o func                                                    *)
(*   <<"Binary">> \o left \o right                                         *)
(*   <<"Assign">> \o left \o right                                         *)
(***************************************************************************)
Drop(ts, n) == SubSeq(ts, n + 1, Len(ts))

Peek(ts, i, tok) == Len(ts) >= i /\ ts[i] = tok

Fail == [ok |-> FALSE, expr |-> <<>>, rest |-> <<>>]

Parsed(e, ts) == [ok |-> TRUE, expr |-> e, rest |-> ts]

\* Token![=] peeks and parses one punctuation character '=' whatever its
\* spacing, so it also matches the first character of ==.
peek_eq(ts, i) == Peek(ts, i, "eq") \/ Peek(ts, i, "eq_joint")

\* Token![==]: '=' joint with a following '='.
peek_eqeq(ts) == Peek(ts, 1, "eq_joint") /\ peek_eq(ts, 2)

\* A path: ident (:: ident)*.
RECURSIVE PathRest(_, _)
PathRest(multi, ts) ==
    IF Peek(ts, 1, "colon2")
    THEN IF Peek(ts, 2, "ident") THEN PathRest(TRUE, Drop(ts, 2)) ELSE Fail
    ELSE Parsed(<<"Path", IF multi THEN "segments" ELSE "ident">>, ts)

ParseAtom(ts) ==
    IF Peek(ts, 1, "ident") THEN PathRest(FALSE, Drop(ts, 1))
    ELSE IF Peek(ts, 1, "lit") THEN Parsed(<<"Lit">>, Drop(ts, 1))
    ELSE IF Peek(ts, 1, "parens") THEN Parsed(<<"Tuple">>, Drop(ts, 1))
    ELSE IF Peek(ts, 1, "parens1") THEN Parsed(<<"Paren">>, Drop(ts, 1))
    ELSE Fail

\* The trailers of an expression: .field, .method(...), (...).
RECURSIVE ParseTrailers(_, _)
ParseTrailers(e, ts) ==
    IF Peek(ts, 1, "dot")
    THEN IF ~Peek(ts, 2, "ident") THEN Fail
         ELSE IF Peek(ts, 3, "parens")
              THEN ParseTrailers(<<"MethodCall", "noargs">> \o e, Drop(ts, 3))
         ELSE IF Peek(ts, 3, "parens1")
              THEN ParseTrailers(<<"MethodCall", "args">> \o e, Drop(ts, 3))
         ELSE ParseTrailers(<<"Field">> \o e, Drop(ts, 2))
    ELSE IF Peek(ts, 1, "parens") \/ Peek(ts, 1, "parens1")
    THEN ParseTrailers(<<"Call">> \o e, Drop(ts, 1))
    ELSE Parsed(e, ts)

TrailersOf(a) == IF a.ok THEN ParseTrailers(a.expr, a.rest) ELSE Fail

ParseUnary(ts) == TrailersOf(ParseAtom(ts))

BinaryOf(l, r) ==
    IF r.ok THEN Parsed(<<"Binary">> \o l.expr \o r.expr, r.rest) ELSE Fail

\* One comparison at most: comparison operators do not chain.
BinaryTail(l) ==
    IF ~l.ok THEN Fail
    ELSE IF peek_eqeq(l.rest) THEN BinaryOf(l, ParseUnary(Drop(l.rest, 2)))
    ELSE l

ParseBinary(ts) == BinaryTail(ParseUnary(ts))

AssignOf(l, r) ==
    IF r.ok THEN Parsed(<<"Assign">> \o l.expr \o r.expr, r.rest) ELSE Fail

\* <Expr as Parse>::parse: an assignment is an expression, right associative;
\* the parser takes = for an assignment when it is not the start of ==.
RECURSIVE ParseExpr(_)
AssignTail(l) ==
    IF ~l.ok THEN Fail
    ELSE IF peek_eq(l.rest, 1) /\ ~peek_eqeq(l.rest)
    THEN AssignOf(l, ParseExpr(Drop(l.rest, 1)))
    ELSE l

ParseExpr(ts) == AssignTail(ParseBinary(ts))

(***************************************************************************)
(* MacroCallParser::parse.                                                 *)
(***************************************************************************)
ParseError == [ok |-> FALSE, exprs |-> <<>>]

\* the check for the end of the input after a comma left out
BreakAfterCommaNever(ts) == FALSE

\* if input.is_empty() { break; } after a comma
BreakAfterComma(ts) == ts = <<>>

\* if input.peek(Ident::peek_any) && input.peek2(Token![=])
IsNamedArg(ts) == Peek(ts, 1, "ident") /\ peek_eq(ts, 2)

RECURSIVE ParseLoop(_, _)
\* exprs.push(value)
PushValue(exprs, value) ==
    IF value.ok THEN ParseLoop(Append(exprs, value.expr), value.rest)
    ELSE ParseError

\* the body of the loop after its comma: the name and the = of a named
\* argument are consumed, then an expression is parsed
AfterComma(exprs, after) ==
    IF BreakAfterComma(after) THEN [ok |-> TRUE, exprs |-> exprs]
    ELSE PushValue(exprs,
                   ParseExpr(IF IsNamedArg(after) THEN Drop(after, 2) ELSE after))

\* while !input.is_empty(): exprs are the expressions pushed so far
ParseLoop(exprs, ts) ==
    IF ts = <<>> THEN [ok |-> TRUE, exprs |-> exprs]
    ELSE IF ~Peek(ts, 1, "comma") THEN ParseError
    ELSE AfterComma(exprs, Drop(ts, 1))

FirstThenLoop(first) ==
    IF first.ok THEN ParseLoop(<<first.expr>>, first.rest) ELSE ParseError

MacroCallParser_parse(ts) == FirstThenLoop(ParseExpr(ts))

(***************************************************************************)
(* ArgsCounter and MacroFinder.                                            *)
(***************************************************************************)
ArgsCounter_default ==
    [simple_field_access |-> 0, nested_field_access |-> 0, ident |-> 0,
     method_call |-> 0, other |-> 0]

ArgsCounter_add(self, rhs) ==
    [simple_field_access |-> self.simple_field_access + rhs.simple_field_access,
     nested_field_access |-> self.nested_field_access + rhs.nested_field_access,
     ident |-> self.ident + rhs.ident,
     method_call |-> self.method_call + rhs.method_call,
     other |-> self.other + rhs.other]

\* iter.fold(Self::default(), Add::add)
RECURSIVE SumFrom(_, _)
SumFrom(acc, counters) ==
    IF counters = <<>> THEN acc
    ELSE SumFrom(ArgsCounter_add(acc, Head(counters)), Tail(counters))

ArgsCounter_sum(counters) == SumFrom(ArgsCounter_default, counters)

\* The macro names the match of visit_expr_macro knows.
SkipOne ==
    {"format_args", "format", "panic", "unreachable", "unimplemented", "todo",
     "info", "debug", "warn", "error", "trace", "print", "println", "eprint",
     "eprintln"}

SkipTwo == {"write", "writeln", "assert"}

SkipThree == {"assert_eq", "assert_ne"}

KnownMacro(ident) == ident \in SkipOne \cup SkipTwo \cup SkipThree

args_start_index(ident) ==
    IF ident \in SkipOne THEN 1
    ELSE IF ident \in SkipTwo THEN 2
    ELSE 3

is_ident(expr) == Len(expr) >= 2 /\ expr[1] = "Path" /\ expr[2] = "ident"

RECURSIVE strip_field_accesses(_)
strip_field_accesses(expr) ==
    IF Head(expr) = "Field" THEN strip_field_accesses(Tail(expr)) ELSE expr

\* a method call counted only when it has no arguments
MethodCallSimpleOnly(expr) == Head(expr) = "MethodCall" /\ expr[2] = "noargs"

\* else if let Expr::MethodCall(_) = expr
IsMethodCall(expr) == Head(expr) = "MethodCall"

\* One turn of the classification loop.
Tally(counter, expr) ==
    IF is_ident(expr) THEN [counter EXCEPT !.ident = @ + 1]
    ELSE IF Head(expr) = "Field"
    THEN IF is_ident(Tail(expr))
         THEN [counter EXCEPT !.simple_field_access = @ + 1]
         ELSE IF is_ident(strip_field_accesses(Tail(expr)))
              THEN [counter EXCEPT !.nested_field_access = @ + 1]
              ELSE counter
    ELSE IF IsMethodCall(expr) THEN [counter EXCEPT !.method_call = @ + 1]
    ELSE [counter EXCEPT !.other = @ + 1]

\* for expr in &call.exprs[args_start_index..]
RECURSIVE TallyAll(_, _)
TallyAll(counter, exprs) ==
    IF exprs = <<>> THEN counter
    ELSE TallyAll(Tally(counter, Head(exprs)), Tail(exprs))

\* the length check let through when the list is exactly as long as the skip
TooFewArgsStrict(len, skip) == len < skip

\* if call.exprs.len() <= args_start_index { return; }
TooFewArgs(len, skip) == len <= skip

\* the classification loop and self.macros.push(MacroCall { name, counter })
PushRecord(ms, name, skip, exprs) ==
    IF TooFewArgs(Len(exprs), skip) THEN ms
    ELSE Append(ms, [name |-> name,
                     counter |-> TallyAll(ArgsCounter_default, Drop(exprs, skip))])

\* let Ok(call) = makro.mac.parse_body::<MacroCallParser>() else { return; }
WithBody(ms, name, parsed) ==
    IF ~parsed.ok THEN ms
    ELSE PushRecord(ms, name, args_start_index(name), parsed.exprs)

\* A node is [kind, path, body]: the kind of syntax-tree node that carries the
\* invocation, the macro's path (a sequence of segments) and the body's tokens.
visit_expr_macro(ms, makro) ==
    IF Len(makro.path) # 1 THEN ms
    ELSE IF ~KnownMacro(makro.path[1]) THEN ms
    ELSE WithBody(ms, makro.path[1], MacroCallParser_parse(makro.body))

\* The traversal of syn::visit::Visit: MacroFinder overrides visit_expr_macro
\* alone, so a macro carried by a statement or an item node goes to the
\* default visit_macro, which records nothing.
VisitNode(ms, nd) ==
    IF nd.kind = "ExprMacro" THEN visit_expr_macro(ms, nd) ELSE ms

\* finder.visit_file(&module): the nodes in source order
RECURSIVE visit_file(_, _)
visit_file(ms, nodes) ==
    IF nodes = <<>> THEN ms
    ELSE visit_file(VisitNode(ms, Head(nodes)), Tail(nodes))

(***************************************************************************)
(* Inputs: macro bodies written as comma-separated arguments.              *)
(***************************************************************************)
RECURSIVE Join(_)
Join(chunks) ==
    IF chunks = <<>> THEN <<>>
    ELSE IF Len(chunks) = 1 THEN chunks[1]
    ELSE chunks[1] \o <<"comma">> \o Join(Tail(chunks))

SeqsUpTo(S, n) == UNION {[1..k -> S] : k \in 0..n}

\* x   "s"   x.y   name = x   x == y   x.m()   (nothing)   =
ArgChunks ==
    {<<"ident">>, <<"lit">>, <<"ident", "dot", "ident">>,
     <<"ident", "eq", "ident">>, <<"ident", "eq_joint", "eq", "ident">>,
     <<"ident", "dot", "ident", "parens">>, <<>>, <<"eq">>}

ParseBodies(n) == {Join(cs) : cs \in SeqsUpTo(ArgChunks, n)}

\* x   x.y   x.y.z   x.y.z.w   x.m()   x.m(1)   "s"   f().y   a::b   a::b.y
\* name = x   x == y   (nothing)
ClassChunks ==
    {<<"ident">>, <<"ident", "dot", "ident">>,
     <<"ident", "dot", "ident", "dot", "ident">>,
     <<"ident", "dot", "ident", "dot", "ident", "dot", "ident">>,
     <<"ident", "dot", "ident", "parens">>,
     <<"ident", "dot", "ident", "parens1">>,
     <<"lit">>, <<"ident", "parens", "dot", "ident">>,
     <<"ident", "colon2", "ident">>,
     <<"ident", "colon2", "ident", "dot", "ident">>,
     <<"ident", "eq", "ident">>, <<"ident", "eq_joint", "eq", "ident">>,
     <<>>}

Leads(k) == [i \in 1..k |-> <<"lit">>]

VisitBodies(extra) ==
    {Join(Leads(k) \o ex) : k \in 0..MaxSkip, ex \in SeqsUpTo(ClassChunks, extra)}

MacroPaths ==
    {<<n>> : n \in SkipOne \cup SkipTwo \cup SkipThree \cup {"vec"}}
        \cup {<<"std", "format">>}

NodeKinds == {"ExprMacro", "StmtMacro", "ItemMacro"}

NoNode == [kind |-> "none", path |-> <<>>, body |-> <<>>]

Mk(kind, name, chunks) == [kind |-> kind, path |-> <<name>>, body |-> Join(chunks)]

\* format!("{}", x)
FormatIdent == Mk("ExprMacro", "format", <<<<"lit">>, <<"ident">>>>)
\* info!("{}", x.y)
InfoField == Mk("ExprMacro", "info", <<<<"lit">>, <<"ident", "dot", "ident">>>>)
\* write!(f, "{}", x.len())
WriteMethod ==
    Mk("ExprMacro", "write",
       <<<<"ident">>, <<"lit">>, <<"ident", "dot", "ident", "parens">>>>)
\* format!("{}", f().y)
FormatCallField ==
    Mk("ExprMacro", "format", <<<<"lit">>, <<"ident", "parens", "dot", "ident">>>>)
\* println!("{}", x);
PrintlnStmt == Mk("StmtMacro", "println", <<<<"lit">>, <<"ident">>>>)
\* vec![x]
VecIdent == Mk("ExprMacro", "vec", <<<<"ident">>>>)

\* The finder as the traversal of a file has left it when it reaches a node:
\* fresh, or holding the record of an earlier format!("{}", x).
PriorFinders == {<<>>, visit_expr_macro(<<>>, FormatIdent)}

\* A file: whether its path is valid UTF-8, whether read_to_string succeeds,
\* whether syn::parse_file succeeds, and the macro invocations of its tree.
File(utf8, readable, syntax_ok, nodes) ==
    [utf8 |-> utf8, readable |-> readable, syntax_ok |-> syntax_ok, nodes |-> nodes]

FileSample ==
    {File(TRUE, TRUE, TRUE, <<FormatIdent, InfoField>>),
     File(TRUE, TRUE, TRUE, <<WriteMethod, PrintlnStmt, VecIdent>>),
     File(TRUE, TRUE, TRUE, <<FormatCallField>>),
     File(TRUE, FALSE, FALSE, <<>>),
     File(TRUE, TRUE, FALSE, <<>>),
     File(FALSE, TRUE, FALSE, <<>>),
     File(FALSE, TRUE, TRUE, <<FormatIdent>>)}

(***************************************************************************)
(* ParseSpec: parse_body::<MacroCallParser>() on one macro body.           *)
(***************************************************************************)
NotParsed == [done |-> FALSE, ok |-> FALSE, exprs |-> <<>>]

NoReport ==
    [files |-> 0, macro_calls |-> 0, counter |-> ArgsCounter_default,
     can_be_inlined_now |-> 0, can_be_inlined_after |-> 0]

ParseIdle == input = <<>> /\ call = NotParsed

VisitIdle == node = NoNode /\ macros = <<>>

CorpusIdle ==
    /\ root = "none" /\ disk = <<>> /\ files = <<>> /\ phase = "none"
    /\ pc = <<>> /\ finder = <<>> /\ results = <<>> /\ calls = <<>>
    /\ report = NoReport

corpusVars == <<root, disk, files, phase, pc, finder, results, calls, report>>

DownloadIdle ==
    /\ top_n = 0 /\ downloaded = 0 /\ page = 0 /\ response = <<>> /\ requests = <<>>
    /\ on_disk = {} /\ dl_pc = "none"

ParseInit ==
    /\ input \in ParseBodies(MaxArgs) /\ call = NotParsed
    /\ VisitIdle /\ CorpusIdle /\ DownloadIdle

parse_body ==
    /\ ~call.done
    /\ LET r == MacroCallParser_parse(input)
       IN  call' = [done |-> TRUE, ok |-> r.ok, exprs |-> r.exprs]
    /\ UNCHANGED <<input, node, macros, corpusVars, downloadVars>>

ParseNext == parse_body

ParseSpec == ParseInit /\ [][ParseNext]_vars

(***************************************************************************)
(* VisitSpec: the traversal reaches one macro-invocation node.             *)
(***************************************************************************)
VisitInit ==
    /\ node = NoNode /\ macros \in PriorFinders
    /\ ParseIdle /\ CorpusIdle /\ DownloadIdle

Visit ==
    /\ node = NoNode
    /\ \E kind \in NodeKinds, path \in MacroPaths, body \in VisitBodies(MaxExtra) :
          LET nd == [kind |-> kind, path |-> path, body |-> body]
          IN  /\ node' = nd
              /\ macros' = VisitNode(macros, nd)
    /\ UNCHANGED <<input, call, corpusVars, downloadVars>>

VisitNext == Visit

VisitSpec == VisitInit /\ [][VisitNext]_vars

(***************************************************************************)
(* Spec: main.                                                             *)
(***************************************************************************)
Pending == [state |-> "pending", macros |-> <<>>]

Err == [state |-> "err", macros |-> <<>>]

Ok(ms) == [state |-> "ok", macros |-> ms]

Slots == 1..NumFiles

Init ==
    /\ root \in {"present", "missing", "unreadable"}
    /\ disk \in IF root = "present" THEN [Slots -> FileSample] ELSE {<<>>}
    /\ files = <<>>
    /\ phase = "glob"
    /\ pc = [f \in Slots |-> "queued"]
    /\ finder = [f \in Slots |-> <<>>]
    /\ results = [f \in Slots |-> Pending]
    /\ calls = <<>>
    /\ report = NoReport
    /\ ParseIdle /\ VisitIdle /\ DownloadIdle

\* glob::glob(..)?.into_iter().filter_map(|path| path.ok()).collect():
\* glob fails on a malformed pattern only, and "crates/**/*.rs" is well
\* formed; a directory that is missing yields no path, one that cannot be
\* listed yields an error entry, which the filter_map drops.
Glob ==
    /\ phase = "glob"
    /\ files' = IF root = "present" THEN disk ELSE <<>>
    /\ phase' = "map"
    /\ UNCHANGED <<root, disk, pc, finder, results, calls, report>>
    /\ UNCHANGED <<input, call, node, macros, downloadVars>>

Tasks == 1..Len(files)

InFlight == {f \in Tasks : pc[f] \in {"parse", "visit", "return"}}

\* every closure writes the finder of one shared slot
SharedFinder(f) == 1

\* let mut finder = MacroFinder::default(): a local of the closure of file f
FinderOf(f) == f

\* A worker takes file f: std::fs::read_to_string(&path)?
ReadFile(f) ==
    /\ phase = "map" /\ pc[f] = "queued"
    /\ Cardinality(InFlight) < NumThreads
    /\ IF files[f].readable
       THEN pc' = [pc EXCEPT ![f] = "parse"] /\ UNCHANGED results
       ELSE pc' = [pc EXCEPT ![f] = "finished"]
            /\ results' = [results EXCEPT ![f] = Err]
    /\ UNCHANGED <<root, disk, files, phase, finder, calls, report>>
    /\ UNCHANGED <<input, call, node, macros, downloadVars>>

\* syn::parse_file(&src).context(path.to_str().unwrap().to_string())?
\* The argument of context is evaluated whatever parse_file returned, and
\* to_str() is None for a path that is not valid UTF-8: unwrap panics.
ParseFile(f) ==
    /\ phase = "map" /\ pc[f] = "parse"
    /\ IF ~files[f].utf8
       THEN pc' = [pc EXCEPT ![f] = "panicked"]
            /\ phase' = "panicked" /\ UNCHANGED results
       ELSE IF ~files[f].syntax_ok
       THEN pc' = [pc EXCEPT ![f] = "finished"]
            /\ results' = [results EXCEPT ![f] = Err] /\ UNCHANGED phase
       ELSE pc' = [pc EXCEPT ![f] = "visit"] /\ UNCHANGED <<results, phase>>
    /\ UNCHANGED <<root, disk, files, finder, calls, report>>
    /\ UNCHANGED <<input, call, node, macros, downloadVars>>

\* let mut finder = MacroFinder::default(); finder.visit_file(&module);
VisitFile(f) ==
    /\ phase = "map" /\ pc[f] = "visit"
    /\ finder' = [finder EXCEPT ![FinderOf(f)] = visit_file(<<>>, files[f].nodes)]
    /\ pc' = [pc EXCEPT ![f] = "return"]
    /\ UNCHANGED <<root, disk, files, phase, results, calls, report>>
    /\ UNCHANGED <<input, call, node, macros, downloadVars>>

\* anyhow::Ok(finder.macros)
Return(f) ==
    /\ phase = "map" /\ pc[f] = "return"
    /\ results' = [results EXCEPT ![f] = Ok(finder[FinderOf(f)])]
    /\ pc' = [pc EXCEPT ![f] = "finished"]
    /\ UNCHANGED <<root, disk, files, phase, finder, calls, report>>
    /\ UNCHANGED <<input, call, node, macros, downloadVars>>

\* .filter_map(|r| r.ok()).flatten().collect::<Vec<MacroCall>>(): the records
\* of the files that returned Ok, in the order of the files
RECURSIVE Collect(_, _)
Collect(rs, n) ==
    IF n = 0 THEN <<>>
    ELSE Collect(rs, n - 1) \o (IF rs[n].state = "ok" THEN rs[n].macros ELSE <<>>)

Counters(cs) == [i \in 1..Len(cs) |-> cs[i].counter]

InlinedNow(c) ==
    /\ c.counter.other = 0 /\ c.counter.method_call = 0
    /\ c.counter.simple_field_access = 0 /\ c.counter.nested_field_access = 0

InlinedAfter(c) == c.counter.other = 0 /\ c.counter.method_call = 0

\* everything main prints
MakeReport(fs, cs) ==
    [files |-> Len(fs),
     macro_calls |-> Len(cs),
     counter |-> ArgsCounter_sum(Counters(cs)),
     can_be_inlined_now |-> Cardinality({i \in 1..Len(cs) : InlinedNow(cs[i])}),
     can_be_inlined_after |-> Cardinality({i \in 1..Len(cs) : InlinedAfter(cs[i])})]

\* The parallel iterator is done: collect, fold, print, Ok(()).
Report ==
    /\ phase = "map"
    /\ \A f \in Tasks : pc[f] = "finished"
    /\ calls' = Collect(results, Len(files))
    /\ report' = MakeReport(files, calls')
    /\ phase' = "done"
    /\ UNCHANGED <<root, disk, files, pc, finder, results>>
    /\ UNCHANGED <<input, call, node, macros, downloadVars>>

Next ==
    \/ Glob
    \/ \E f \in Tasks : ReadFile(f)
    \/ \E f \in Tasks : ParseFile(f)
    \/ \E f \in Tasks : VisitFile(f)
    \/ \E f \in Tasks : Return(f)
    \/ Report

Spec == Init /\ [][Next]_vars

(***************************************************************************)
(* DownloadSpec: download_top_n_crates(dir, n) (src/src/lib.rs), from the  *)
(* first test of the while loop to the return. A crate is named by its     *)
(* rank in the registry's order by downloads.                              *)
(***************************************************************************)
\* the largest n the model calls download_top_n_crates with
MaxN == 205

\* 100.min(remaining)
PageSizeLimit == 100

Min(a, b) == IF a < b THEN a ELSE b

page_size(remaining) == Min(PageSizeLimit, remaining)

Query(p, size) == [page |-> p, page_size |-> size]

\* The registry's answer to a query sorted by downloads: page p of pages of
\* size crates each, from a registry that has the crates asked for.
Crates(query) ==
    [i \in 1..query.page_size |-> (query.page - 1) * query.page_size + i]

DownloadInit ==
    /\ top_n \in 0..MaxN
    /\ downloaded = 0
    /\ page = 1
    /\ response = <<>>
    /\ requests = <<>>
    /\ on_disk \in {{}, 1..top_n}
    /\ dl_pc = "while"
    /\ ParseIdle /\ VisitIdle /\ CorpusIdle

\* while downloaded < n: build the query, set its page, client.crates(query)
\* answers.
SendQuery ==
    /\ dl_pc = "while" /\ downloaded < top_n
    /\ requests' = Append(requests, Query(page, page_size(top_n - downloaded)))
    /\ response' = Crates(Query(page, page_size(top_n - downloaded)))
    /\ dl_pc' = "for"
    /\ UNCHANGED <<top_n, downloaded, page, on_disk>>
    /\ UNCHANGED <<input, call, node, macros, corpusVars>>

\* client.crates(query)? returns the error.
QueryFails ==
    /\ dl_pc = "while" /\ downloaded < top_n
    /\ requests' = Append(requests, Query(page, page_size(top_n - downloaded)))
    /\ dl_pc' = "err"
    /\ UNCHANGED <<top_n, downloaded, page, response, on_disk>>
    /\ UNCHANGED <<input, call, node, macros, corpusVars>>

\* One iteration of for c in response.crates: a crate whose directory exists
\* is skipped, any other is fetched and unpacked under dir.
Crate ==
    /\ dl_pc = "for" /\ response # <<>>
    /\ downloaded' = downloaded + 1
    /\ on_disk' = on_disk \cup {Head(response)}
    /\ response' = Tail(response)
    /\ UNCHANGED <<top_n, page, requests, dl_pc>>
    /\ UNCHANGED <<input, call, node, macros, corpusVars>>

\* The fetch or the unpacking of a crate that has no directory fails: ?
\* returns the error (and a status other than 200 panics).
CrateFails ==
    /\ dl_pc = "for" /\ response # <<>>
    /\ Head(response) \notin on_disk
    /\ downloaded' = downloaded + 1
    /\ dl_pc' = "err"
    /\ UNCHANGED <<top_n, page, response, requests, on_disk>>
    /\ UNCHANGED <<input, call, node, macros, corpusVars>>

\* The response is exhausted: page += 1.
NextPage ==
    /\ dl_pc = "for" /\ response = <<>>
    /\ page' = page + 1
    /\ dl_pc' = "while"
    /\ UNCHANGED <<top_n, downloaded, response, requests, on_disk>>
    /\ UNCHANGED <<input, call, node, macros, corpusVars>>

\* downloaded < n is false: Ok(()).
ReturnOk ==
    /\ dl_pc = "while" /\ ~(downloaded < top_n)
    /\ dl_pc' = "ok"
    /\ UNCHANGED <<top_n, downloaded, page, response, requests, on_disk>>
    /\ UNCHANGED <<input, call, node, macros, corpusVars>>

DownloadNext ==
    \/ SendQuery
    \/ QueryFails
    \/ Crate
    \/ CrateFails
    \/ NextPage
    \/ ReturnOk

DownloadSpec == DownloadInit /\ [][DownloadNext]_vars

(***************************************************************************)
(* The claims.                                                             *)
(***************************************************************************)
\* The step of VisitSpec in which the traversal visits a node.
Visiting == node = NoNode /\ node' # NoNode

\* The arguments of a node that the visitor classifies.
ArgsOf(nd) == MacroCallParser_parse(nd.body).exprs

SkipOf(nd) == args_start_index(nd.path[1])

Classified(nd) == Drop(ArgsOf(nd), SkipOf(nd))

Total(c) ==
    c.simple_field_access + c.nested_field_access + c.ident + c.method_call + c.other

Last(ms) == ms[Len(ms)]

CountOf(exprs, Shape(_)) == Cardinality({i \in 1..Len(exprs) : Shape(exprs[i])})

\* The shapes of section 4.3.
BareIdentifier(e) == e = <<"Path", "ident">>

DirectField(e) == e[1] = "Field" /\ BareIdentifier(Tail(e))

RECURSIVE Unprojected(_)
Unprojected(e) == IF e[1] = "Field" THEN Unprojected(Tail(e)) ELSE e

NestedField(e) ==
    /\ e[1] = "Field" /\ Tail(e)[1] = "Field"
    /\ BareIdentifier(Unprojected(e))

FieldChain(e) == e[1] = "Field" /\ BareIdentifier(Unprojected(e))

MethodInvocation(e) == e[1] = "MethodCall"

\* C1: every record the visitor emits tallies each argument at index >=
\* skip_count in exactly one category: its five counters sum to the argument
\* count minus skip_count, which is at least 1.
C1_EveryArgumentTallied ==
    [][(Visiting /\ macros' # macros) =>
          /\ Total(Last(macros').counter) = Len(ArgsOf(node')) - SkipOf(node')
          /\ Total(Last(macros').counter) >= 1]_vars

\* The files whose closure returns Ok, and the invocations of theirs that the
\* visitor records, in the order of the collected records.
Loads(file) == file.readable /\ file.syntax_ok

Recorded(nd) == VisitNode(<<>>, nd) # <<>>

RECURSIVE RecordedNodes(_)
RecordedNodes(fs) ==
    IF fs = <<>> THEN <<>>
    ELSE (IF Loads(Head(fs)) THEN SelectSeq(Head(fs).nodes, Recorded) ELSE <<>>)
         \o RecordedNodes(Tail(fs))

AllBare(nd) == \A i \in 1..Len(Classified(nd)) : BareIdentifier(Classified(nd)[i])

AllBareOrField(nd) ==
    \A i \in 1..Len(Classified(nd)) :
        BareIdentifier(Classified(nd)[i]) \/ FieldChain(Classified(nd)[i])

\* C2: the report counts a record as inlineable today exactly when every
\* classified argument of its invocation is a bare identifier, and as
\* inlineable with field accesses exactly when every classified argument is a
\* bare identifier or a field access chain on an identifier.
C2_InlineableIffSimpleArguments ==
    phase = "done" =>
        /\ report.can_be_inlined_now
              = Len(SelectSeq(RecordedNodes(files), AllBare))
        /\ report.can_be_inlined_after
              = Len(SelectSeq(RecordedNodes(files), AllBareOrField))

\* C3: when the root directory is missing or cannot be listed, main does not
\* complete normally.
C3_MissingRootAborts == root \in {"missing", "unreadable"} => phase # "done"

\* One worker taking the files one after the other.
RECURSIVE SequentialCalls(_)
SequentialCalls(fs) ==
    IF fs = <<>> THEN <<>>
    ELSE (IF Loads(Head(fs)) THEN visit_file(<<>>, Head(fs).nodes) ELSE <<>>)
         \o SequentialCalls(Tail(fs))

\* C4: whatever the interleaving of the closures, the report of a run that
\* completes is the report of processing the files one after the other.
C4_ReportIndependentOfInterleaving ==
    phase = "done" => report = MakeReport(files, SequentialCalls(files))

\* C4 witness: a run over two files with records completed.
C4_Witness ==
    /\ phase = "done" /\ Len(files) >= 2
    /\ results[1].state = "ok" /\ results[1].macros # <<>>
    /\ results[2].state = "ok" /\ results[2].macros # <<>>
    /\ results[1] # results[2]

\* The Macro Signature Table of section 4.1.
TableSkip(name) ==
    CASE name \in {"assert_eq", "assert_ne"} -> 3
      [] name \in {"write", "writeln", "assert"} -> 2
      [] name \in {"format_args", "format", "panic", "unreachable",
                   "unimplemented", "todo", "info", "debug", "warn", "error",
                   "trace", "print", "println", "eprint", "eprintln"} -> 1
      [] OTHER -> 0

Qualifies(nd) ==
    /\ Len(nd.path) = 1
    /\ TableSkip(nd.path[1]) > 0
    /\ MacroCallParser_parse(nd.body).ok
    /\ Len(MacroCallParser_parse(nd.body).exprs) > TableSkip(nd.path[1])

\* C5: a visit of visit_expr_macro appends exactly one record, under the
\* macro's name, when the name is in the table, the body parses and it has
\* more arguments than the name's skip_count; otherwise it leaves the records
\* as they were.
C5_OneRecordIffQualifies ==
    [][(Visiting /\ node'.kind = "ExprMacro") =>
          IF Qualifies(node')
          THEN /\ Len(macros') = Len(macros) + 1
               /\ SubSeq(macros', 1, Len(macros)) = macros
               /\ Last(macros').name = node'.path[1]
          ELSE macros' = macros]_vars

\* C5 witness: assert_eq!(a, b, "{}", x) visited by a finder that held a record.
C5_Witness ==
    /\ node.kind = "ExprMacro" /\ node.path = <<"assert_eq">>
    /\ Len(macros) = 2 /\ macros[2].name = "assert_eq"
    /\ macros[1].name = "format"

\* C6: an invocation that qualifies is recorded whatever kind of node
\* carries it.
C6_EveryNodeKindVisited ==
    [][(Visiting /\ Qualifies(node')) => Len(macros') = Len(macros) + 1]_vars

\* C7: the counters of an emitted record are the numbers of classified
\* arguments of each shape: identifier, field of an identifier, deeper field
\* chain on an identifier, method call.
C7_CountersFollowShapes ==
    [][(Visiting /\ macros' # macros) =>
          LET c == Last(macros').counter
              args == Classified(node')
          IN  /\ c.ident = CountOf(args, BareIdentifier)
              /\ c.simple_field_access = CountOf(args, DirectField)
              /\ c.nested_field_access = CountOf(args, NestedField)
              /\ c.method_call = CountOf(args, MethodInvocation)]_vars

\* C7 witness: a record with a nested field access and a method call that
\* takes an argument.
C7_Witness ==
    /\ node.kind = "ExprMacro" /\ macros # <<>>
    /\ Last(macros).counter.nested_field_access = 1
    /\ Last(macros).counter.method_call = 1
    /\ \E i \in 1..Len(Classified(node)) :
          Classified(node)[i][1] = "MethodCall" /\ Classified(node)[i][2] = "args"

EndsWithComma(ts) == ts # <<>> /\ ts[Len(ts)] = "comma"

HasCommaComma(ts) == \E i \in 1..Len(ts) - 1 : ts[i] = "comma" /\ ts[i + 1] = "comma"

\* C8: a body that parses without a trailing comma parses to the same list
\* with one trailing comma added, and a body with two commas in a row does
\* not parse.
C8_TrailingComma ==
    call.done =>
        /\ (call.ok /\ ~EndsWithComma(input)) =>
              MacroCallParser_parse(Append(input, "comma"))
                  = [ok |-> TRUE, exprs |-> call.exprs]
        /\ HasCommaComma(input) => ~call.ok

\* C8 witness: a parsed body of two arguments without a trailing comma.
C8_Witness ==
    call.done /\ call.ok /\ ~EndsWithComma(input) /\ Len(call.exprs) = 2

\* The comma-separated arguments of a body.
RECURSIVE SplitArgs(_, _)
SplitArgs(cur, ts) ==
    IF ts = <<>> THEN <<cur>>
    ELSE IF Head(ts) = "comma" THEN <<cur>> \o SplitArgs(<<>>, Tail(ts))
    ELSE SplitArgs(Append(cur, Head(ts)), Tail(ts))

WholeExpr(ts) == ParseExpr(ts).ok /\ ParseExpr(ts).rest = <<>>

\* ident '=' expr
NamedForm(arg) == Peek(arg, 1, "ident") /\ Peek(arg, 2, "eq") /\ WholeExpr(Drop(arg, 2))

ValidArg(args, i) == WholeExpr(args[i]) \/ (i > 1 /\ NamedForm(args[i]))

Contributed(args, i) ==
    IF i > 1 /\ NamedForm(args[i]) THEN ParseExpr(Drop(args[i], 2)).expr
    ELSE ParseExpr(args[i]).expr

\* C9: when every comma-separated argument is a valid expression or, after
\* the first, a named form, the list parses and has one entry per argument in
\* source order: the value of a named form, every other argument whole.
C9_OneEntryPerArgument ==
    LET args == SplitArgs(<<>>, input)
    IN  (call.done /\ \A i \in 1..Len(args) : ValidArg(args, i)) =>
            /\ call.ok
            /\ call.exprs = [i \in 1..Len(args) |-> Contributed(args, i)]

\* C10: a file that fails to read or to parse never aborts the run, and a
\* run that completes collects exactly the records of the files that loaded.
C10_FileFailureNeverAborts ==
    /\ \A f \in 1..Len(files) : ~Loads(files[f]) => pc[f] # "panicked"
    /\ phase = "done" => calls = SequentialCalls(files)

\* The ranks a query asks the registry for.
RanksOf(query) ==
    ((query.page - 1) * query.page_size + 1)..(query.page * query.page_size)

TimesRequested(rank) ==
    Cardinality({i \in 1..Len(requests) : rank \in RanksOf(requests[i])})

\* C11: for n >= 1, when download_top_n_crates returns Ok the queries it sent
\* ask for the ranks 1..n, each exactly once and no other, and downloaded
\* is n.
C11_PagesCoverTopN ==
    (dl_pc = "ok" /\ top_n >= 1) =>
        /\ downloaded = top_n
        /\ \A rank \in 1..top_n : TimesRequested(rank) = 1
        /\ \A i \in 1..Len(requests) : RanksOf(requests[i]) \subseteq 1..top_n

====
